---- MODULE Spec2Model ----
(***************************************************************************)
(* A model of the token lifecycle of the PhonePe SDK: AuthManager          *)
(* (src/src/client/AuthManager.ts), the in-memory token cache it owns and  *)
(* the renewals it sends to the OAuth endpoint, together with the error    *)
(* classification helper createErrorFromResponse (errors/PhonePeErrors,    *)
(* src/unnamed/part_001).                                                  *)
(*                                                                         *)
(* AuthManager runs on the JavaScript event loop: a handler runs to its    *)
(* next await without interruption.  getAccessToken and forceRefresh run   *)
(* synchronously up to the await of httpClient.post (the request is sent), *)
(* and the continuation after the await (the response is read, the cache   *)
(* written, the promise settled) runs in one piece.  Each of these pieces  *)
(* is one action.  Time (Date.now(), in milliseconds) is advanced by Tick. *)
(***************************************************************************)
EXTENDS Integers, Sequences, FiniteSets, TLC

\* ---------------------------------------------------------------- bounds
\* Invocations of getAccessToken / forceRefresh that send a renewal in one
\* behaviour (a getAccessToken that finds a valid token returns at once, and
\* there is no bound on those).
NumCalls == 2
\* The clock advances at most this many times.
MaxTicks == 2

\* ------------------------------------------------------- program constants
MsPerSecond == 1000
DefaultTimeout == 30000
NullToken == 0

\* Half a second: the clock's step (whole seconds hide Math.floor's rounding).
Tick == MsPerSecond \div 2
StartTime == Tick
MaxTime == StartTime + MaxTicks * Tick

Calls == 1..NumCalls
\* The lifetimes the provider declares (expires_in, in seconds) and the
\* values of config.tokenRefreshBuffer (in milliseconds): a lifetime below,
\* equal to and above the buffer, and no buffer at all.
ExpiresIns == {0, 1, 2}
Buffers == {0, MsPerSecond}

\* ------------------------------------------------ JavaScript number values
\* A value of type number | undefined: a number, NaN, or undefined.
Num(n) == [t |-> "number", v |-> n]
NaNValue == [t |-> "NaN", v |-> 0]
Undefined == [t |-> "undefined", v |-> 0]

\* ------------------------------------------------------------ raw failures
\* What createErrorFromResponse is given.  shape says what kind of value it
\* is: "axios" (isAxiosError is true), "phonepe" (an instance of
\* PhonePeError: inner is that error), "other" (any other object, such as an
\* Error), "nullish" (null or undefined).  For an axios error: hasResponse
\* (error.response is set), status (response.status), data (response.data),
\* headers (the response's headers, as the transport delivers them),
\* hasHeaderProp (the response object also has a property named `header`,
\* holding the same headers; an axios response has none), code (error.code)
\* and configTimeout (error.config.timeout, 0 when absent).
NoData == [present |-> FALSE, code |-> "", error_code |-> ""]
Datas ==
  { NoData,
    [present |-> TRUE, code |-> "", error_code |-> ""],
    [present |-> TRUE, code |-> "BAD_REQUEST", error_code |-> ""],
    [present |-> TRUE, code |-> "", error_code |-> "E42"],
    [present |-> TRUE, code |-> "BAD_REQUEST", error_code |-> "E42"] }

\* A header value is a string, modelled as its sequence of characters.
NoHeaders == [hasRetryAfter |-> FALSE, retryAfter |-> << >>]
RetryAfterValues ==
  { <<"5">>, <<"0">>, <<"1", "2">>, << >>, <<"a">>, <<"5", "s">>, <<" ", "7">>,
    <<"-", "3">> }
HeaderSets ==
  {NoHeaders} \cup {[hasRetryAfter |-> TRUE, retryAfter |-> v] : v \in RetryAfterValues}

Statuses == {400, 401, 403, 404, 429, 500, 599, 600}
ErrorCodes == {"", "ECONNABORTED", "ETIMEDOUT", "ECONNREFUSED"}
ConfigTimeouts == {0, DefaultTimeout}

\* The error objects of the taxonomy (PhonePeError and its subclasses): name,
\* code, statusCode, retryable, and the fields the subclasses add.  details
\* is the response body; detailsCode stands for the other values the code
\* passes as details (the transport's code of a network error, "[error]"
\* for the raw value itself).  The message and the timestamp are left out.
\* threw marks not an error object but an exception raised by the
\* classifier itself.
PhonePeError(name, code, details, statusCode, retryable) ==
  [ threw |-> FALSE, name |-> name, code |-> code, statusCode |-> statusCode,
    retryable |-> retryable, details |-> details, detailsCode |-> "",
    retryAfter |-> Undefined, timeout |-> Undefined, apiErrorCode |-> "" ]

PhonePeValidationError(details) ==
  PhonePeError("PhonePeValidationError", "VALIDATION_ERROR", details, Num(400), FALSE)

PhonePeNetworkError(code) ==
  [PhonePeError("PhonePeNetworkError", "NETWORK_ERROR", NoData, Undefined, TRUE)
     EXCEPT !.detailsCode = code]

PhonePeAuthError(details) ==
  PhonePeError("PhonePeAuthError", "AUTH_ERROR", details, Num(401), FALSE)

PhonePeAPIError(statusCode, apiErrorCode, responseData, retryable) ==
  [PhonePeError("PhonePeAPIError", "API_ERROR", responseData, statusCode, retryable)
     EXCEPT !.apiErrorCode = apiErrorCode]

PhonePeTimeoutError(timeout, details) ==
  [PhonePeError("PhonePeTimeoutError", "TIMEOUT", details, Undefined, TRUE)
     EXCEPT !.timeout = timeout]

PhonePeRateLimitError(retryAfter, details) ==
  [PhonePeError("PhonePeRateLimitError", "RATE_LIMIT", details, Num(429), TRUE)
     EXCEPT !.retryAfter = retryAfter]

\* A TypeError raised while classifying: no error object is returned.
ThrownTypeError ==
  [PhonePeError("TypeError", "", NoData, Undefined, FALSE) EXCEPT !.threw = TRUE]

NoError == PhonePeError("", "", NoData, Undefined, FALSE)

\* ----------------------------------------------------------------- parseInt
DigitChars == <<"0", "1", "2", "3", "4", "5", "6", "7", "8", "9">>
IsDigit(c) == \E k \in 1..Len(DigitChars) : DigitChars[k] = c
DigitVal(c) == (CHOOSE k \in 1..Len(DigitChars) : DigitChars[k] = c) - 1

RECURSIVE SkipSpaces(_)
SkipSpaces(s) ==
  IF s # << >> /\ Head(s) = " " THEN SkipSpaces(Tail(s)) ELSE s

\* The value of the longest prefix of digits of s, given the value so far.
RECURSIVE DigitsValue(_, _)
DigitsValue(s, acc) ==
  IF s # << >> /\ IsDigit(Head(s))
  THEN DigitsValue(Tail(s), acc * 10 + DigitVal(Head(s)))
  ELSE acc

\* parseInt(string): leading white space is skipped, a sign is read, then
\* the digits up to the first character that is none; NaN when there is no
\* digit.
ParseInt(str) ==
  LET s == SkipSpaces(str)
      neg == s # << >> /\ Head(s) = "-"
      signed == s # << >> /\ Head(s) \in {"-", "+"}
      body == IF signed THEN Tail(s) ELSE s
  IN IF body = << >> \/ ~IsDigit(Head(body)) THEN NaNValue
     ELSE IF neg THEN Num(0 - DigitsValue(body, 0))
     ELSE Num(DigitsValue(body, 0))

\* -------------------------------------------------- createErrorFromResponse
\* AxiosError with the timeout test moved ahead of the status tests.
AxiosErrorTimeoutFirst(error) ==
  LET responseData == IF error.hasResponse THEN error.data ELSE NoData
      apiErrorCode ==
        IF responseData.code # "" THEN responseData.code ELSE responseData.error_code
      hasStatus(set) == error.hasResponse /\ error.status \in set
  IN
  IF ~error.hasResponse THEN PhonePeNetworkError(error.code)
  ELSE IF error.code \in {"ECONNABORTED", "ETIMEDOUT"}
    THEN PhonePeTimeoutError(Num(error.configTimeout), responseData)
  ELSE IF hasStatus({429}) THEN
    IF ~error.hasHeaderProp THEN ThrownTypeError
    ELSE
      LET value ==
            IF error.headers.hasRetryAfter /\ error.headers.retryAfter # << >>
            THEN error.headers.retryAfter
            ELSE <<"0">>
      IN PhonePeRateLimitError(ParseInt(value), responseData)
  ELSE IF hasStatus({401, 403}) THEN PhonePeAuthError(responseData)
  ELSE IF hasStatus({400}) THEN PhonePeValidationError(responseData)
  ELSE PhonePeAPIError(Num(error.status), apiErrorCode, responseData,
                       error.status >= 500 /\ error.status < 600)

\* AxiosError with every status from 500 up retryable.
AxiosErrorOpenEnded(error) ==
  LET responseData == IF error.hasResponse THEN error.data ELSE NoData
      apiErrorCode ==
        IF responseData.code # "" THEN responseData.code ELSE responseData.error_code
      hasStatus(set) == error.hasResponse /\ error.status \in set
  IN
  IF hasStatus({429}) THEN
    IF ~error.hasHeaderProp THEN ThrownTypeError
    ELSE
      LET value ==
            IF error.headers.hasRetryAfter /\ error.headers.retryAfter # << >>
            THEN error.headers.retryAfter
            ELSE <<"0">>
      IN PhonePeRateLimitError(ParseInt(value), responseData)
  ELSE IF hasStatus({401, 403}) THEN PhonePeAuthError(responseData)
  ELSE IF hasStatus({400}) THEN PhonePeValidationError(responseData)
  ELSE IF ~error.hasResponse THEN PhonePeNetworkError(error.code)
  ELSE IF error.code \in {"ECONNABORTED", "ETIMEDOUT"}
    THEN PhonePeTimeoutError(Num(error.configTimeout), responseData)
  ELSE PhonePeAPIError(Num(error.status), apiErrorCode, responseData,
                       error.status >= 500)

\* The branch for an axios error (error.isAxiosError).
AxiosError(error) ==
  LET responseData == IF error.hasResponse THEN error.data ELSE NoData
      apiErrorCode ==
        IF responseData.code # "" THEN responseData.code ELSE responseData.error_code
      hasStatus(set) == error.hasResponse /\ error.status \in set
  IN
  IF hasStatus({429}) THEN
    \* error.response?.header["retry-after"] || "0": reading a key of the
    \* property `header`, which is undefined unless the response has one.
    IF ~error.hasHeaderProp THEN ThrownTypeError
    ELSE
      LET value ==
            IF error.headers.hasRetryAfter /\ error.headers.retryAfter # << >>
            THEN error.headers.retryAfter
            ELSE <<"0">>
      IN PhonePeRateLimitError(ParseInt(value), responseData)
  ELSE IF hasStatus({401, 403}) THEN PhonePeAuthError(responseData)
  ELSE IF hasStatus({400}) THEN PhonePeValidationError(responseData)
  ELSE IF ~error.hasResponse THEN PhonePeNetworkError(error.code)
  ELSE IF error.code \in {"ECONNABORTED", "ETIMEDOUT"}
    THEN PhonePeTimeoutError(Num(error.configTimeout), responseData)
  ELSE PhonePeAPIError(Num(error.status), apiErrorCode, responseData,
                       error.status >= 500 /\ error.status < 600)

\* CreateErrorFromResponse without the two instanceof branches: an error of
\* the taxonomy is wrapped like any other value.
CreateErrorFromResponseNoPassThrough(error) ==
  IF error.shape = "nullish" THEN ThrownTypeError
  ELSE IF error.shape = "axios" THEN AxiosError(error)
  ELSE [PhonePeError("PhonePeError", "UNKNOWN_ERROR", NoData, Undefined, FALSE)
          EXCEPT !.detailsCode = "[error]"]

CreateErrorFromResponse(error) ==
  IF error.shape = "nullish" THEN ThrownTypeError   \* null.isAxiosError
  ELSE IF error.shape = "axios" THEN AxiosError(error)
  ELSE IF error.shape = "phonepe" THEN error.inner
  ELSE [PhonePeError("PhonePeError", "UNKNOWN_ERROR", NoData, Undefined, FALSE)
          EXCEPT !.detailsCode = "[error]"]

\* ------------------------------------------------------- the raw failures
Raw(shape, hasResponse, status, data, headers, hasHeaderProp, code, configTimeout, inner) ==
  [ shape |-> shape, hasResponse |-> hasResponse, status |-> status, data |-> data,
    headers |-> headers, hasHeaderProp |-> hasHeaderProp, code |-> code,
    configTimeout |-> configTimeout, inner |-> inner ]

AxiosFailures ==
  { Raw("axios", TRUE, s, d, h, p, c, t, NoError) :
      s \in Statuses, d \in Datas, h \in HeaderSets, p \in BOOLEAN,
      c \in ErrorCodes, t \in ConfigTimeouts }
  \cup
  { Raw("axios", FALSE, 0, NoData, NoHeaders, FALSE, c, t, NoError) :
      c \in ErrorCodes, t \in ConfigTimeouts }

ClassifiedErrors ==
  { PhonePeAuthError(NoData), PhonePeValidationError(NoData),
    PhonePeNetworkError("ECONNREFUSED"), PhonePeTimeoutError(Num(DefaultTimeout), NoData),
    PhonePeRateLimitError(Num(5), NoData),
    PhonePeAPIError(Num(500), "E42", NoData, TRUE) }

OtherFailures ==
  { Raw("phonepe", FALSE, 0, NoData, NoHeaders, FALSE, "", 0, e) : e \in ClassifiedErrors }
  \cup { Raw("other", FALSE, 0, NoData, NoHeaders, FALSE, "", 0, NoError),
         Raw("nullish", FALSE, 0, NoData, NoHeaders, FALSE, "", 0, NoError) }

RawFailures == AxiosFailures \cup OtherFailures

\* What the catch block of refreshAccessToken can be handed when the POST
\* fails: an axios error (its response has no property `header`; a request
\* that timed out or never connected has no response), or another exception.
TransportFailures ==
  { e \in RawFailures :
      \/ /\ e.shape = "axios" /\ ~e.hasHeaderProp /\ e.data = NoData
         /\ e.headers = NoHeaders /\ e.configTimeout = DefaultTimeout
         /\ IF e.hasResponse THEN e.code = "" /\ e.status \in {400, 401, 404, 429, 500}
            ELSE e.code \in {"ECONNABORTED", "ECONNREFUSED"}
      \/ e.shape = "other" }

\* ------------------------------------------------------------------- state
VARIABLES
  now,                 \* Date.now()
  tokenRefreshBuffer,  \* config.tokenRefreshBuffer
  tokenCache,          \* AuthManager.tokenCache
  calls,               \* the invocations that send a renewal
  started,             \* how many of them have begun
  cleared,             \* clearCache() ran and no getAccessToken() began since
  clearedAt,           \* how many invocations had begun when the cache was last cleared
  lastStore,           \* the renewal that wrote the cached credential: when, its expires_in, and the invocation
  lastForced,          \* the latest forceRefresh() that resolved (0: none)
  returned,            \* what the last step resolved an invocation with (NoReturn: nothing)
  thrown,              \* the name of the error the last step rejected an invocation with ("": none)
  received,            \* what the last step got from the token endpoint ("nothing": it got none)
  observed,            \* what the last step's hasValidToken() / getTimeUntilExpiry() returned
  rawFailure,          \* the classifier's input
  classified,          \* the classifier's output
  reclassified,        \* the classifier's output, given its own output
  classifyPc,          \* "off", "input", "classified" or "reclassified"
  validatorOp,         \* the validator called: "off", "validatePhone" or "validateAll"
  validatorArg,        \* its argument
  validatorResult,     \* what it returned
  validatorPc          \* "off", "input" or "done"

authVars ==
  << now, tokenRefreshBuffer, tokenCache, calls, started, cleared, clearedAt,
     lastStore, lastForced, returned, thrown, received, observed >>
classifyVars == << rawFailure, classified, reclassified, classifyPc >>
validateVars == << validatorOp, validatorArg, validatorResult, validatorPc >>
pureVars == << classifyVars, validateVars >>
vars == << authVars, classifyVars, validateVars >>

\* One invocation that sends a renewal.  op: the operation; pc: "idle" (not
\* begun), "awaiting" (suspended at the await of the POST), "resolved",
\* "rejected"; sent: the requests it has sent to the token endpoint; result:
\* the token it resolved to; sawEmpty: the cache held no token when it
\* began; joined: the oldest getAccessToken() that had begun on an empty
\* cache and was still awaiting its renewal when this one began on an empty
\* cache (0: none).
IdleCall ==
  [ op |-> "none", pc |-> "idle", sent |-> 0, result |-> NullToken,
    sawEmpty |-> FALSE, joined |-> 0 ]

\* What a step hands to a caller.  op: the operation that resolved; hit: from
\* the cache, without a request; token: the token; valid: Date.now() was
\* before the expiry of the credential the token belongs to; afterClear:
\* clearCache() had run and no getAccessToken() had begun since, when the
\* invocation began.
Return(op, hit, token, valid, afterClear) ==
  [op |-> op, hit |-> hit, token |-> token, valid |-> valid, afterClear |-> afterClear]
NoReturn == Return("none", FALSE, NullToken, FALSE, FALSE)

\* What a read hands to its caller.  op: the operation; valid: the boolean
\* of hasValidToken(); seconds: the number of getTimeUntilExpiry().
Read(op, valid, seconds) == [op |-> op, valid |-> valid, seconds |-> seconds]
NoRead == Read("none", FALSE, 0)

EmptyCache == [token |-> NullToken, expiry |-> 0]
NoStore == [at |-> 0, expires_in |-> 0, by |-> 0]

\* CacheValid with <= in the place of <.
CacheValidInclusive(cache, t) == cache.token # NullToken /\ t <= cache.expiry

\* this.tokenCache.token && Date.now() < this.tokenCache.expiry
CacheValid(cache, t) == cache.token # NullToken /\ t < cache.expiry

HasValidToken == CacheValid(tokenCache, now)

\* GetTimeUntilExpiry with Math.ceil in the place of Math.floor.
GetTimeUntilExpiryRoundedUp ==
  IF ~HasValidToken THEN 0
  ELSE (tokenCache.expiry - now + MsPerSecond - 1) \div MsPerSecond

\* GetTimeUntilExpiry with the operands of the subtraction exchanged.
GetTimeUntilExpirySinceExpiry ==
  IF ~HasValidToken THEN 0 ELSE (now - tokenCache.expiry) \div MsPerSecond

\* Math.floor((expiry - Date.now()) / 1000), 0 without a valid token.
GetTimeUntilExpiry ==
  IF ~HasValidToken THEN 0 ELSE (tokenCache.expiry - now) \div MsPerSecond

\* ExpiryTime with the buffer added instead of subtracted.
ExpiryTimeBufferAdded(t, expires_in, buffer) == t + expires_in * MsPerSecond + buffer

\* Date.now() + expires_in * 1000 - this.config.tokenRefreshBuffer
ExpiryTime(t, expires_in, buffer) == t + expires_in * MsPerSecond - buffer

AuthInit ==
  /\ now = StartTime
  /\ tokenRefreshBuffer \in Buffers
  /\ tokenCache = EmptyCache
  /\ calls = [i \in Calls |-> IdleCall]
  /\ started = 0
  /\ cleared = FALSE
  /\ clearedAt = 0
  /\ lastStore = NoStore
  /\ lastForced = 0
  /\ returned = NoReturn
  /\ thrown = NoError.name
  /\ received = "nothing"
  /\ observed = NoRead

\* The getAccessToken() invocations that began on an empty cache and await
\* their renewal.
AwaitingOnEmpty ==
  {j \in Calls : calls[j].pc = "awaiting" /\ calls[j].op = "getAccessToken"
                 /\ calls[j].sawEmpty}

Oldest(S) == IF S = {} THEN 0 ELSE CHOOSE j \in S : \A k \in S : j <= k

\* refreshAccessToken up to its await: the POST is sent.
Requested(call) == [call EXCEPT !.pc = "awaiting", !.sent = @ + 1]

\* getAccessToken() on a valid cache: the cached token is returned.
GetCachedToken ==
  /\ CacheValid(tokenCache, now)
  /\ returned' = Return("getAccessToken", TRUE, tokenCache.token,
                        now < tokenCache.expiry, cleared)
  /\ cleared' = FALSE
  /\ thrown' = NoError.name
  /\ received' = "nothing" /\ observed' = NoRead
  /\ UNCHANGED << now, tokenRefreshBuffer, clearedAt, tokenCache, calls, started, lastStore,
                  lastForced >>

\* getAccessToken() otherwise: a renewal, which invocation i awaits.
GetNewToken(i) ==
  /\ ~CacheValid(tokenCache, now)
  /\ i = started + 1 /\ i \in Calls
  /\ started' = i
  /\ calls' =
       [calls EXCEPT ![i] =
          Requested([IdleCall EXCEPT
                       !.op = "getAccessToken",
                       !.sawEmpty = (tokenCache.token = NullToken),
                       !.joined = IF tokenCache.token = NullToken
                                  THEN Oldest(AwaitingOnEmpty) ELSE 0])]
  /\ cleared' = FALSE
  /\ returned' = NoReturn
  /\ thrown' = NoError.name
  /\ received' = "nothing" /\ observed' = NoRead
  /\ UNCHANGED << now, tokenRefreshBuffer, clearedAt, tokenCache, lastStore, lastForced >>

\* getAccessToken()
GetAccessToken(i) == GetCachedToken \/ GetNewToken(i)

\* forceRefresh(): clearCache(), then a renewal.
ForceRefresh(i) ==
  /\ i = started + 1 /\ i \in Calls
  /\ started' = i
  /\ tokenCache' = EmptyCache
  /\ lastStore' = NoStore
  /\ calls' = [calls EXCEPT ![i] = Requested([IdleCall EXCEPT !.op = "forceRefresh"])]
  /\ returned' = NoReturn
  /\ thrown' = NoError.name
  /\ clearedAt' = started
  /\ received' = "nothing" /\ observed' = NoRead
  /\ UNCHANGED << now, tokenRefreshBuffer, cleared, lastForced >>

\* clearCache()
ClearCache ==
  /\ tokenCache' = EmptyCache
  /\ lastStore' = NoStore
  /\ cleared' = TRUE
  /\ returned' = NoReturn
  /\ thrown' = NoError.name
  /\ clearedAt' = started
  /\ received' = "nothing" /\ observed' = NoRead
  /\ UNCHANGED << now, tokenRefreshBuffer, calls, started, lastForced >>

\* TokenResponse that never shortens the cached expiry: the new token is
\* stored with the later of the old and the new expiry.
TokenResponseKeepsLaterExpiry(i, access_token, expires_in) ==
  /\ calls[i].pc = "awaiting"
  /\ IF access_token = NullToken
     THEN /\ calls' = [calls EXCEPT ![i] = [@ EXCEPT !.pc = "rejected"]]
          /\ thrown' = PhonePeAuthError(NoData).name
          /\ returned' = NoReturn
          /\ UNCHANGED << tokenCache, lastStore, lastForced >>
     ELSE LET expiryTime == ExpiryTime(now, expires_in, tokenRefreshBuffer)
              later == IF tokenCache.expiry > expiryTime THEN tokenCache.expiry
                       ELSE expiryTime
          IN
          /\ tokenCache' = [token |-> access_token, expiry |-> later]
          /\ calls' = [calls EXCEPT ![i] =
                         [@ EXCEPT !.pc = "resolved", !.result = access_token]]
          /\ lastStore' = [at |-> now, expires_in |-> expires_in, by |-> i]
          /\ lastForced' = IF calls[i].op = "forceRefresh" THEN i ELSE lastForced
          /\ returned' = Return(calls[i].op, FALSE, access_token, now < later, FALSE)
          /\ thrown' = NoError.name
  /\ received' = IF access_token = NullToken THEN "no_token" ELSE "token"
  /\ observed' = NoRead
  /\ UNCHANGED << now, tokenRefreshBuffer, clearedAt, started, cleared >>

\* TokenResponse with the cache written before access_token is tested.
TokenResponseStoresFirst(i, access_token, expires_in) ==
  LET expiryTime == ExpiryTime(now, expires_in, tokenRefreshBuffer) IN
  /\ calls[i].pc = "awaiting"
  /\ tokenCache' = [token |-> access_token, expiry |-> expiryTime]
  /\ lastStore' = [at |-> now, expires_in |-> expires_in, by |-> i]
  /\ IF access_token = NullToken
     THEN /\ calls' = [calls EXCEPT ![i] = [@ EXCEPT !.pc = "rejected"]]
          /\ thrown' = PhonePeAuthError(NoData).name
          /\ returned' = NoReturn
          /\ UNCHANGED lastForced
     ELSE /\ calls' = [calls EXCEPT ![i] =
                         [@ EXCEPT !.pc = "resolved", !.result = access_token]]
          /\ lastForced' = IF calls[i].op = "forceRefresh" THEN i ELSE lastForced
          /\ returned' = Return(calls[i].op, FALSE, access_token, now < expiryTime, FALSE)
          /\ thrown' = NoError.name
  /\ received' = IF access_token = NullToken THEN "no_token" ELSE "token"
  /\ observed' = NoRead
  /\ UNCHANGED << now, tokenRefreshBuffer, clearedAt, started, cleared >>

\* The POST of invocation i is answered with a 2xx response whose body holds
\* access_token and expires_in.  The provider issues a token of its own to
\* every request: the token of request i is i; NullToken stands for a body
\* without (or with an empty) access_token.
TokenResponse(i, access_token, expires_in) ==
  /\ calls[i].pc = "awaiting"
  /\ IF access_token = NullToken
     THEN \* throw new PhonePeAuthError(...), rethrown by the catch block
          /\ calls' = [calls EXCEPT ![i] = [@ EXCEPT !.pc = "rejected"]]
          /\ thrown' = PhonePeAuthError(NoData).name
          /\ returned' = NoReturn
          /\ UNCHANGED << tokenCache, lastStore, lastForced >>
     ELSE LET expiryTime == ExpiryTime(now, expires_in, tokenRefreshBuffer) IN
          /\ tokenCache' = [token |-> access_token, expiry |-> expiryTime]
          /\ calls' = [calls EXCEPT ![i] =
                         [@ EXCEPT !.pc = "resolved", !.result = access_token]]
          /\ lastStore' = [at |-> now, expires_in |-> expires_in, by |-> i]
          /\ lastForced' = IF calls[i].op = "forceRefresh" THEN i ELSE lastForced
          /\ returned' = Return(calls[i].op, FALSE, access_token, now < expiryTime, FALSE)
          /\ thrown' = NoError.name
  /\ received' = IF access_token = NullToken THEN "no_token" ELSE "token"
  /\ observed' = NoRead
  /\ UNCHANGED << now, tokenRefreshBuffer, clearedAt, started, cleared >>

\* TokenFailure that swallows the error: the invocation is not settled.
TokenFailureSwallowed(i, error) ==
  /\ calls[i].pc = "awaiting"
  /\ thrown' = NoError.name
  /\ returned' = NoReturn
  /\ received' = "failure" /\ observed' = NoRead
  /\ UNCHANGED << now, tokenRefreshBuffer, clearedAt, tokenCache, calls, started, cleared,
                  lastStore, lastForced >>

\* TokenFailure with a retry: a retryable failure sends the request again.
TokenFailureRetries(i, error) ==
  /\ calls[i].pc = "awaiting"
  /\ IF CreateErrorFromResponse(error).retryable
     THEN /\ calls' = [calls EXCEPT ![i] = Requested(@)]
          /\ thrown' = NoError.name
     ELSE /\ calls' = [calls EXCEPT ![i] = [@ EXCEPT !.pc = "rejected"]]
          /\ thrown' = CreateErrorFromResponse(error).name
  /\ returned' = NoReturn
  /\ received' = "failure" /\ observed' = NoRead
  /\ UNCHANGED << now, tokenRefreshBuffer, clearedAt, tokenCache, started, cleared, lastStore,
                  lastForced >>

\* The POST of invocation i fails with error: the catch block rethrows what
\* createErrorFromResponse makes of it (or what createErrorFromResponse
\* itself throws).
TokenFailure(i, error) ==
  /\ calls[i].pc = "awaiting"
  /\ calls' = [calls EXCEPT ![i] = [@ EXCEPT !.pc = "rejected"]]
  /\ thrown' = CreateErrorFromResponse(error).name
  /\ returned' = NoReturn
  /\ received' = "failure" /\ observed' = NoRead
  /\ UNCHANGED << now, tokenRefreshBuffer, clearedAt, tokenCache, started, cleared, lastStore,
                  lastForced >>

\* Time passes.
AdvanceTime ==
  /\ now + Tick <= MaxTime
  /\ now' = now + Tick
  /\ returned' = NoReturn
  /\ thrown' = NoError.name
  /\ received' = "nothing" /\ observed' = NoRead
  /\ UNCHANGED << tokenRefreshBuffer, clearedAt, tokenCache, calls, started, cleared, lastStore,
                  lastForced >>

\* CallHasValidToken that drops an expired credential from the cache.
CallHasValidTokenEvicts ==
  /\ observed' = Read("hasValidToken", HasValidToken, 0)
  /\ tokenCache' = IF HasValidToken THEN tokenCache ELSE EmptyCache
  /\ returned' = NoReturn
  /\ thrown' = NoError.name
  /\ received' = "nothing"
  /\ UNCHANGED << now, tokenRefreshBuffer, clearedAt, calls, started, cleared, lastStore,
                  lastForced >>

\* hasValidToken() is called.
CallHasValidToken ==
  /\ observed' = Read("hasValidToken", HasValidToken, 0)
  /\ returned' = NoReturn
  /\ thrown' = NoError.name
  /\ received' = "nothing"
  /\ UNCHANGED << now, tokenRefreshBuffer, clearedAt, tokenCache, calls, started, cleared,
                  lastStore, lastForced >>

\* getTimeUntilExpiry() is called.
CallGetTimeUntilExpiry ==
  /\ observed' = Read("getTimeUntilExpiry", HasValidToken, GetTimeUntilExpiry)
  /\ returned' = NoReturn
  /\ thrown' = NoError.name
  /\ received' = "nothing"
  /\ UNCHANGED << now, tokenRefreshBuffer, clearedAt, tokenCache, calls, started, cleared,
                  lastStore, lastForced >>

ClassifierOff ==
  /\ rawFailure = Raw("other", FALSE, 0, NoData, NoHeaders, FALSE, "", 0, NoError)
  /\ classified = NoError
  /\ reclassified = NoError
  /\ classifyPc = "off"

\* A ValidationResult: valid, error, field and value; an absent or empty
\* string is the empty sequence.  threw: not a result but an exception.
ValidationResult(valid, error, field, value) ==
  [threw |-> FALSE, valid |-> valid, error |-> error, field |-> field, value |-> value]
NoResult == ValidationResult(FALSE, << >>, << >>, << >>)

ValidatorOff ==
  /\ validatorOp = "off"
  /\ validatorArg = << >>
  /\ validatorResult = NoResult
  /\ validatorPc = "off"

Init == AuthInit /\ ClassifierOff /\ ValidatorOff

Next ==
  \/ \E i \in Calls : GetAccessToken(i) /\ UNCHANGED pureVars
  \/ \E i \in Calls : ForceRefresh(i) /\ UNCHANGED pureVars
  \/ ClearCache /\ UNCHANGED pureVars
  \/ \E i \in Calls : \E t \in {NullToken, i}, e \in ExpiresIns :
       TokenResponse(i, t, e) /\ UNCHANGED pureVars
  \/ \E i \in Calls, e \in TransportFailures : TokenFailure(i, e) /\ UNCHANGED pureVars
  \/ AdvanceTime /\ UNCHANGED pureVars
  \/ CallHasValidToken /\ UNCHANGED pureVars
  \/ CallGetTimeUntilExpiry /\ UNCHANGED pureVars

Spec == Init /\ [][Next]_vars

\* The answers of the transport under which completion is checked: a token
\* (or none) with a lifetime of one second, a request that timed out, and
\* a 401 response.
LiveExpiresIn == 1
LiveFailures ==
  { e \in TransportFailures :
      e.shape = "axios"
        /\ (IF e.hasResponse THEN e.status = 401 ELSE e.code = "ECONNABORTED") }

\* The transport answers or fails the request of invocation i, and the
\* continuation of refreshAccessToken runs.
Settle(i) ==
  \/ \E t \in {NullToken, i} : TokenResponse(i, t, LiveExpiresIn) /\ UNCHANGED pureVars
  \/ \E e \in LiveFailures : TokenFailure(i, e) /\ UNCHANGED pureVars

LiveNext ==
  \/ \E i \in Calls : GetAccessToken(i) /\ UNCHANGED pureVars
  \/ \E i \in Calls : ForceRefresh(i) /\ UNCHANGED pureVars
  \/ ClearCache /\ UNCHANGED pureVars
  \/ \E i \in Calls : Settle(i)
  \/ AdvanceTime /\ UNCHANGED pureVars
  \/ CallHasValidToken /\ UNCHANGED pureVars
  \/ CallGetTimeUntilExpiry /\ UNCHANGED pureVars

\* A transport that settles, in the end, every request it was given.
LiveSpec == Init /\ [][LiveNext]_vars /\ \A i \in Calls : WF_vars(Settle(i))

\* ------------------------------------------- the classifier on its own
\* createErrorFromResponse is a function of its argument: it is applied once
\* to each raw failure.
ClassifyInit ==
  /\ rawFailure \in RawFailures
  /\ classified = NoError
  /\ reclassified = NoError
  /\ classifyPc = "input"
  /\ AuthInit /\ tokenRefreshBuffer = 0
  /\ ValidatorOff

Classify ==
  /\ classifyPc = "input"
  /\ classified' = CreateErrorFromResponse(rawFailure)
  /\ classifyPc' = "classified"
  /\ UNCHANGED << rawFailure, reclassified, authVars, validateVars >>

\* An error object of the taxonomy, handed to createErrorFromResponse: an
\* instance of PhonePeError, with no property isAxiosError.
AsRawFailure(e) == Raw("phonepe", FALSE, 0, NoData, NoHeaders, FALSE, "", 0, e)

\* createErrorFromResponse(createErrorFromResponse(x)): the outer call runs
\* on what the inner call returned; an exception of the inner call reaches
\* the caller before the outer call begins.
Reclassify ==
  /\ classifyPc = "classified"
  /\ reclassified' =
       IF classified.threw THEN classified
       ELSE CreateErrorFromResponse(AsRawFailure(classified))
  /\ classifyPc' = "reclassified"
  /\ UNCHANGED << rawFailure, classified, authVars, validateVars >>

ClassifyNext == Classify \/ Reclassify

ClassifySpec == ClassifyInit /\ [][ClassifyNext]_vars

\* ------------------------------------------------------- the validators
\* The longest run of white space around a digit group in the inputs, and
\* the longest array handed to validateAll.
MaxPad == 2
MaxResults == 2

\* VALIDATION_RULES.PHONE.LENGTH
PhoneLength == 10

\* The characters \s matches and trim() strips, among those of the inputs.
IsSpace(c) == c \in {" ", "\t"}

RECURSIVE TrimStart(_)
TrimStart(s) == IF s # << >> /\ IsSpace(Head(s)) THEN TrimStart(Tail(s)) ELSE s

RECURSIVE TrimEnd(_)
TrimEnd(s) ==
  IF s # << >> /\ IsSpace(s[Len(s)]) THEN TrimEnd(SubSeq(s, 1, Len(s) - 1)) ELSE s

\* String.prototype.trim
Trim(s) == TrimEnd(TrimStart(s))

\* ReplaceFirstRun with every run removed (the regular expression /\s+/g).
ReplaceEveryRun(s) == SelectSeq(s, LAMBDA c : ~IsSpace(c))

\* s.replace(/\s+/, ""): the regular expression has no g flag, so the
\* leftmost run of white space is removed, and only that one.
ReplaceFirstRun(s) ==
  IF \A k \in 1..Len(s) : ~IsSpace(s[k]) THEN s
  ELSE LET first == CHOOSE k \in 1..Len(s) :
                      IsSpace(s[k]) /\ \A j \in 1..(k - 1) : ~IsSpace(s[j])
       IN SubSeq(s, 1, first - 1) \o TrimStart(SubSeq(s, first, Len(s)))

\* VALIDATION_RULES.PHONE.PATTERN, /^[6-9]\d{9}$/
PhonePattern(s) ==
  /\ Len(s) = PhoneLength
  /\ s[1] \in {"6", "7", "8", "9"}
  /\ \A k \in 1..Len(s) : IsDigit(s[k])

\* PhonePeValidation.validatePhone(phone, {allowEmpty})
ValidatePhone(phone, allowEmpty) ==
  IF phone = << >> \/ Trim(phone) = << >> THEN
    IF allowEmpty THEN ValidationResult(TRUE, << >>, << >>, << >>)
    ELSE ValidationResult(FALSE, <<"Phone number is required">>, <<"phone">>, << >>)
  ELSE
    LET cleanPhone == ReplaceFirstRun(Trim(phone)) IN
    IF Len(cleanPhone) # PhoneLength \/ ~PhonePattern(cleanPhone)
    THEN ValidationResult(FALSE, <<"invalid">>, <<"phone">>, << >>)
    ELSE ValidationResult(TRUE, << >>, << >>, cleanPhone)

\* Array.prototype.join: the elements with the separator between them.
RECURSIVE Join(_, _)
Join(strings, separator) ==
  IF Len(strings) <= 1 THEN strings
  ELSE <<Head(strings), separator>> \o Join(Tail(strings), separator)

\* The errors (the fields) of the results that are not valid and have one.
RECURSIVE Collect(_, _)
Collect(validations, key) ==
  IF validations = << >> THEN << >>
  ELSE LET v == Head(validations)
           own == IF ~v.valid /\ v[key] # << >> THEN v[key] ELSE << >>
       IN own \o Collect(Tail(validations), key)

\* PhonePeValidation.validateAll(validations)
ValidateAll(validations) ==
  LET errors == Collect(validations, "error")
      fields == Collect(validations, "field")
  IN IF Len(errors) > 0
     THEN ValidationResult(FALSE, Join(errors, "; "), Join(fields, ", "), << >>)
     ELSE ValidationResult(TRUE, << >>, << >>, << >>)

\* The phone numbers given: one that is valid, one that begins with 5, one
\* with a letter, and none.
PhoneBases ==
  { <<"9", "8", "7", "6", "5", "4", "3", "2", "1", "0">>,
    <<"5", "8", "7", "6", "5", "4", "3", "2", "1", "0">>,
    <<"9", "8", "7", "6", "5", "a", "3", "2", "1", "0">>,
    << >> }

\* n characters of white space.
Pad(n) == [k \in 1..n |-> IF k % 2 = 1 THEN " " ELSE "\t"]

\* A number with white space before it, after it, and after its first p
\* and its first q characters.
Spaced(d, lead, p, run1, q, run2, trail) ==
  LET cut1 == IF p < Len(d) THEN p ELSE Len(d)
      cut2 == IF q < Len(d) THEN q ELSE Len(d)
      part(from, to) == [k \in 1..(to - from) |-> d[from + k]]
  IN Pad(lead) \o part(0, cut1) \o Pad(run1) \o part(cut1, cut2) \o Pad(run2)
       \o part(cut2, Len(d)) \o Pad(trail)

PhoneInputs ==
  { [phone |-> Spaced(d, lead, pq[1], run1, pq[2], run2, trail), allowEmpty |-> a] :
      d \in PhoneBases, lead \in 0..MaxPad, trail \in 0..MaxPad,
      run1 \in 0..MaxPad, run2 \in 0..MaxPad,
      pq \in {<<0, 0>>, <<1, 1>>, <<3, 3>>, <<3, 7>>, <<1, 9>>, <<5, 6>>},
      a \in BOOLEAN }

\* The results given to validateAll: a valid one, and invalid ones with an
\* error and a field, with one of them, and with neither.
GivenResults ==
  { ValidationResult(TRUE, << >>, << >>, << >>),
    ValidationResult(FALSE, <<"e1">>, <<"f1">>, << >>),
    ValidationResult(FALSE, <<"e2">>, << >>, << >>),
    ValidationResult(FALSE, << >>, <<"f3">>, << >>),
    ValidationResult(FALSE, << >>, << >>, << >>) }

ResultArrays == UNION {[1..n -> GivenResults] : n \in 0..MaxResults}

ValidateInit ==
  /\ \/ validatorOp = "validatePhone" /\ validatorArg \in PhoneInputs
     \/ validatorOp = "validateAll" /\ validatorArg \in ResultArrays
  /\ validatorResult = NoResult
  /\ validatorPc = "input"
  /\ AuthInit /\ tokenRefreshBuffer = 0
  /\ ClassifierOff

CallValidatePhone ==
  /\ validatorPc = "input" /\ validatorOp = "validatePhone"
  /\ validatorResult' = ValidatePhone(validatorArg.phone, validatorArg.allowEmpty)
  /\ validatorPc' = "done"
  /\ UNCHANGED << validatorOp, validatorArg, authVars, classifyVars >>

CallValidateAll ==
  /\ validatorPc = "input" /\ validatorOp = "validateAll"
  /\ validatorResult' = ValidateAll(validatorArg)
  /\ validatorPc' = "done"
  /\ UNCHANGED << validatorOp, validatorArg, authVars, classifyVars >>

ValidateNext == CallValidatePhone \/ CallValidateAll

ValidateSpec == ValidateInit /\ [][ValidateNext]_vars

\* ------------------------------------------------------------------ claims
\* C1: N concurrent getAccessToken() calls on an empty cache send one
\* renewal request and resolve to the same token: an invocation that begins
\* on an empty cache while an earlier one awaits its renewal sends no
\* request of its own, and resolves to what the earlier one resolves to.
C1_SingleFlightRenewal ==
  \A j \in Calls :
    calls[j].joined # 0 =>
      /\ calls[j].sent = 0
      /\ (calls[j].pc = "resolved" /\ calls[calls[j].joined].pc = "resolved"
            => calls[j].result = calls[calls[j].joined].result)

\* C2: a token handed to a caller, from the cache or from a renewal, is
\* not expired: Date.now() is before the expiry of its credential.
C2_NeverReturnsExpiredToken == returned # NoReturn => returned.valid

\* The expiry the cached credential should have: t0 + L - S.
ExpiresAt == lastStore.at + lastStore.expires_in * MsPerSecond - tokenRefreshBuffer

\* C3: a renewal at t0 with lifetime L and buffer S stores expiresAt =
\* t0 + L - S; getAccessToken() at time t returns the cached token, sending
\* no request, when t < expiresAt, and sends a renewal otherwise.
C3_ExpiryAndCacheUse ==
  /\ [](tokenCache.token # NullToken => tokenCache.expiry = ExpiresAt)
  /\ [](returned.hit => now < ExpiresAt /\ returned.token = tokenCache.token)
  /\ [][returned'.hit => calls' = calls /\ tokenCache' = tokenCache]_vars
  /\ [][\A i \in Calls :
          started' = i /\ started = i - 1 /\ calls'[i].op = "getAccessToken"
            => tokenCache.token = NullToken \/ now >= ExpiresAt]_vars

\* C3's case: a token is served from the cache some time after its renewal,
\* after an earlier token had expired and been renewed.
C3_Witness ==
  /\ returned.hit
  /\ now > lastStore.at
  /\ \E i \in Calls : calls[i].op = "getAccessToken" /\ ~calls[i].sawEmpty

\* C4: forceRefresh() always sends a renewal, and once it has resolved, a
\* getAccessToken() returns its token or a later one, never one requested
\* before it.
C4_ForceRefreshSupersedes ==
  /\ \A i \in Calls : calls[i].op = "forceRefresh" => calls[i].sent = 1
  /\ (returned.hit /\ lastForced # 0 => returned.token >= lastForced)

\* C5: while a renewal is in flight no second renewal request is sent.
C5_OneRenewalInFlight == Cardinality({i \in Calls : calls[i].pc = "awaiting"}) <= 1

\* C6: the getAccessToken() that follows a clearCache() performs a renewal:
\* it is never served from the cache.
C6_ClearCacheForcesRenewal == returned.hit => ~returned.afterClear

\* C7: every failure of getAccessToken() or forceRefresh() is a
\* PhonePeAuthError.
C7_FailuresAreAuthErrors ==
  thrown # NoError.name => thrown = PhonePeAuthError(NoData).name

\* C8: createErrorFromResponse returns an error for every raw failure: it
\* never throws.
C8_ClassifyNeverRaises == classifyPc = "classified" => ~classified.threw

\* A timeout indicator together with a 401 / 403 response.
TimedOutAuthFailure ==
  /\ rawFailure.shape = "axios" /\ rawFailure.hasResponse
  /\ rawFailure.status \in {401, 403}
  /\ rawFailure.code \in {"ECONNABORTED", "ETIMEDOUT"}

\* C9: a failure with a timeout indicator and a 401 or 403 response is a
\* PhonePeAuthError (AUTH_ERROR), not retryable, and no timeout error.
C9_AuthBeatsTimeout ==
  classifyPc = "classified" /\ TimedOutAuthFailure =>
    /\ ~classified.threw
    /\ classified.name = "PhonePeAuthError"
    /\ classified.code = "AUTH_ERROR"
    /\ classified.retryable = FALSE

C9_Witness ==
  /\ classifyPc = "classified" /\ TimedOutAuthFailure
  /\ rawFailure.status = 403 /\ rawFailure.code = "ETIMEDOUT"
  /\ classified.code = "AUTH_ERROR"

\* C10: a 429 response gives a PhonePeRateLimitError, retryable, whose
\* retryAfter is the number in the retry-after header, and unset without
\* that header.
C10_RateLimitRetryAfter ==
  classifyPc = "classified" /\ rawFailure.shape = "axios" /\ rawFailure.hasResponse
    /\ rawFailure.status = 429 =>
    /\ ~classified.threw
    /\ classified.name = "PhonePeRateLimitError"
    /\ classified.retryable
    /\ classified.retryAfter =
         IF rawFailure.headers.hasRetryAfter
         THEN ParseInt(rawFailure.headers.retryAfter)
         ELSE Undefined

\* The transport's timeout indicator: error.code of a request that timed out.
TimeoutIndicator == rawFailure.code \in {"ECONNABORTED", "ETIMEDOUT"}

\* The kind and the retryable flag the stated decision order gives a raw
\* failure, first match winning.
StatedOrder(x) ==
  IF x.shape = "phonepe" THEN [name |-> x.inner.name, retryable |-> x.inner.retryable]
  ELSE IF x.shape # "axios" THEN [name |-> "PhonePeError", retryable |-> FALSE]
  ELSE IF ~x.hasResponse THEN [name |-> "PhonePeNetworkError", retryable |-> TRUE]
  ELSE IF x.code \in {"ECONNABORTED", "ETIMEDOUT"}
    THEN [name |-> "PhonePeTimeoutError", retryable |-> TRUE]
  ELSE IF x.status = 429 THEN [name |-> "PhonePeRateLimitError", retryable |-> TRUE]
  ELSE IF x.status \in {401, 403} THEN [name |-> "PhonePeAuthError", retryable |-> FALSE]
  ELSE IF x.status = 400 THEN [name |-> "PhonePeValidationError", retryable |-> FALSE]
  ELSE IF x.status >= 500 /\ x.status <= 599
    THEN [name |-> "PhonePeAPIError", retryable |-> TRUE]
  ELSE [name |-> "PhonePeAPIError", retryable |-> FALSE]

\* C11: every raw failure is classified by the stated decision order, first
\* match winning: no response, then the timeout indicator, then 429, 401 /
\* 403, 400, 5xx, any other status; an error of the taxonomy is unchanged
\* and anything else is an unknown error.  So a timeout indicator with a
\* 429 or a 400 response gives a PhonePeTimeoutError.
C11_StatedDecisionOrder ==
  classifyPc = "classified" /\ rawFailure.shape # "nullish" =>
    /\ ~classified.threw
    /\ classified.name = StatedOrder(rawFailure).name
    /\ classified.retryable = StatedOrder(rawFailure).retryable
    /\ (rawFailure.shape = "phonepe" => classified = rawFailure.inner)
    /\ (rawFailure.shape = "other" => classified.code = "UNKNOWN_ERROR")

\* C12: a failure with the timeout indicator, with or without a response,
\* and no 401 / 403 status, gives a PhonePeTimeoutError, retryable, that
\* carries the timeout configured for the request.
C12_TimeoutsAreTimeoutErrors ==
  classifyPc = "classified" /\ rawFailure.shape = "axios" /\ TimeoutIndicator
    /\ ~(rawFailure.hasResponse /\ rawFailure.status \in {401, 403}) =>
    /\ ~classified.threw
    /\ classified.name = "PhonePeTimeoutError"
    /\ classified.retryable
    /\ classified.timeout = Num(rawFailure.configTimeout)

\* C13: classifying the result of a classification gives that very result:
\* the same kind, code, status, retryable flag, details and fields.
C13_ClassifyIdempotent == classifyPc = "reclassified" => reclassified = classified

\* C13's case: an error built from a response is classified again.
C13_Witness ==
  /\ classifyPc = "reclassified"
  /\ rawFailure.shape = "axios" /\ rawFailure.hasResponse
  /\ classified.name = "PhonePeAPIError" /\ classified.apiErrorCode = "E42"
  /\ classified.details.present
  /\ reclassified = classified

\* C14: a 2xx response without (or with an empty) access_token rejects the
\* getAccessToken() / forceRefresh() that awaited it with a PhonePeAuthError,
\* hands no token to the caller, and leaves the cache as it was.
C14_MissingTokenIsAuthError ==
  /\ [](received = "no_token" =>
          thrown = PhonePeAuthError(NoData).name /\ returned = NoReturn)
  /\ [][received' = "no_token" =>
          /\ tokenCache' = tokenCache /\ lastStore' = lastStore
          /\ \E i \in Calls :
               /\ calls[i].pc = "awaiting" /\ calls'[i].pc = "rejected"
               /\ \A j \in Calls \ {i} : calls'[j] = calls[j]]_vars

\* C14's case: a forceRefresh() is answered without a token while the cache
\* holds the credential of another renewal.
C14_Witness ==
  /\ received = "no_token"
  /\ tokenCache.token # NullToken
  /\ \E i \in Calls : calls[i].op = "forceRefresh" /\ calls[i].pc = "rejected"

\* C15: right after a renewal resolved with a token, hasValidToken() is
\* true, for every tokenRefreshBuffer and every expires_in.
C15_ValidAfterRenewal ==
  returned # NoReturn /\ ~returned.hit => HasValidToken

\* C16, as claimed: getTimeUntilExpiry() is zero exactly when
\* hasValidToken() is false, and with a valid token it is the positive
\* remaining window, expiry - now.
C16_ZeroExactlyWhenInvalid ==
  observed.op = "getTimeUntilExpiry" =>
    /\ (observed.seconds = 0 <=> ~HasValidToken)
    /\ (HasValidToken =>
          observed.seconds > 0
          /\ observed.seconds * MsPerSecond = tokenCache.expiry - now)

\* C16, amended: getTimeUntilExpiry() is zero whenever hasValidToken() is
\* false; with a valid token it is the remaining window, expiry - now, in
\* whole seconds rounded down, so it is zero in the last second.
C16_WholeSecondsRemaining ==
  observed.op = "getTimeUntilExpiry" =>
    /\ observed.valid = HasValidToken
    /\ (~HasValidToken => observed.seconds = 0)
    /\ (HasValidToken =>
          /\ observed.seconds >= 0
          /\ observed.seconds * MsPerSecond <= tokenCache.expiry - now
          /\ tokenCache.expiry - now < (observed.seconds + 1) * MsPerSecond)

\* C16's case: a valid token with less than a second left.
C16_Witness ==
  /\ observed.op = "getTimeUntilExpiry"
  /\ HasValidToken
  /\ tokenCache.expiry - now < MsPerSecond
  /\ observed.seconds = 0

\* A renewal resolves with a token in this step.
RenewalSucceeds ==
  \E i \in Calls : calls[i].pc = "awaiting" /\ calls'[i].pc = "resolved"

\* C17: unless a renewal succeeds, no step raises the value of
\* getTimeUntilExpiry(): not the passing of time, a cache hit, a read, a
\* failed renewal, clearCache() or the start of a renewal.
C17_TimeUntilExpiryNonIncreasing ==
  [][~RenewalSucceeds => GetTimeUntilExpiry' <= GetTimeUntilExpiry]_vars

\* C17's case: after a failed renewal and some time, the value read is
\* below the lifetime the credential began with.
C17_Witness ==
  /\ observed.op = "getTimeUntilExpiry"
  /\ HasValidToken
  /\ now > lastStore.at
  /\ observed.seconds < lastStore.expires_in
  /\ \E i \in Calls : calls[i].pc = "rejected"

\* C18: one invocation of getAccessToken() or forceRefresh() sends at most
\* one request, whatever the failure of that request.
C18_NoInternalRetry == \A i \in Calls : calls[i].sent <= 1

\* C18's case: an invocation was rejected with a retryable error.
C18_Witness ==
  /\ received = "failure"
  /\ thrown = PhonePeNetworkError("").name
  /\ \E i \in Calls : calls[i].pc = "rejected" /\ calls[i].sent = 1

\* C19: a caller that found a renewal in progress shares its outcome: when
\* that renewal failed, the caller failed too.
C19_WaitersShareFailure ==
  \A j \in Calls :
    calls[j].joined # 0 /\ calls[calls[j].joined].pc = "rejected"
      /\ calls[j].pc \in {"resolved", "rejected"}
    => calls[j].pc = "rejected"

\* C20: hasValidToken() and getTimeUntilExpiry() return in the step they
\* are called in, with the validity of the cache as it is, and change
\* neither the cache nor the clock nor any invocation: no request is sent.
C20_ReadsArePure ==
  [][observed'.op # "none" =>
       /\ tokenCache' = tokenCache /\ lastStore' = lastStore
       /\ calls' = calls /\ started' = started /\ now' = now
       /\ observed'.valid = CacheValid(tokenCache, now)]_vars

\* C20's case: hasValidToken() on an expired credential while a renewal is
\* outstanding.
C20_Witness ==
  /\ observed.op = "hasValidToken" /\ ~observed.valid
  /\ tokenCache.token # NullToken
  /\ \E i \in Calls : calls[i].pc = "awaiting"

\* The indices of the results given to validateAll that are not valid.
InvalidGiven == {k \in 1..Len(validatorArg) : ~validatorArg[k].valid}

\* C21: validateAll throws a PhonePeValidationError when one of the given
\* results is not valid, and returns {valid: true} only when all are valid.
C21_ValidateAllThrows ==
  validatorPc = "done" /\ validatorOp = "validateAll" =>
    /\ (InvalidGiven # {} => validatorResult.threw)
    /\ (~validatorResult.threw /\ validatorResult.valid => InvalidGiven = {})

\* C25: validatePhone accepts a phone whose characters other than white
\* space are ten digits beginning with 6 to 9, wherever the white space
\* is, and returns those ten digits as the value.
C25_PhoneWhitespaceRemoved ==
  validatorPc = "done" /\ validatorOp = "validatePhone"
    /\ PhonePattern(ReplaceEveryRun(validatorArg.phone)) =>
    /\ validatorResult.valid
    /\ validatorResult.value = ReplaceEveryRun(validatorArg.phone)

\* The cached credential comes from a renewal whose expires_in is not
\* above the tokenRefreshBuffer.
StaleCredential ==
  /\ tokenCache.token # NullToken
  /\ lastStore.expires_in * MsPerSecond <= tokenRefreshBuffer

\* C22: a credential renewed with a lifetime not above the buffer is stale
\* at once: hasValidToken() is false, and no getAccessToken() is served
\* from the cache while that credential is the cached one.
C22_StaleAtOnce ==
  /\ [](StaleCredential => ~HasValidToken)
  /\ [][StaleCredential => ~returned'.hit]_vars

\* C22's case: right after such a renewal a getAccessToken() has sent a
\* renewal of its own, with the stale token still in the cache.
C22_Witness ==
  /\ StaleCredential
  /\ now = lastStore.at
  /\ \E i \in Calls :
       /\ calls[i].op = "getAccessToken" /\ calls[i].pc = "awaiting"
       /\ ~calls[i].sawEmpty /\ i > lastStore.by

C24_RetryableByKind ==
  classifyPc = "classified" /\ ~classified.threw =>
    /\ (classified.name \in {"PhonePeNetworkError", "PhonePeTimeoutError",
                              "PhonePeRateLimitError"} => classified.retryable)
    /\ (classified.name \in {"PhonePeValidationError", "PhonePeAuthError"}
          \/ classified.code = "UNKNOWN_ERROR" => ~classified.retryable)
    /\ (classified.name = "PhonePeAPIError" =>
          /\ classified.statusCode.t = "number"
          /\ classified.retryable <=> classified.statusCode.v \in 500..599
          /\ (rawFailure.shape = "axios"
                /\ (rawFailure.data.code # "" \/ rawFailure.data.error_code # "")
                => /\ classified.apiErrorCode # ""
                   /\ classified.apiErrorCode
                        \in {rawFailure.data.code, rawFailure.data.error_code}))

\* C24's case: a 404 whose body has an error code.
C24_Witness ==
  /\ classifyPc = "classified"
  /\ rawFailure.shape = "axios" /\ rawFailure.hasResponse /\ rawFailure.status = 404
  /\ rawFailure.data.error_code = "E42" /\ rawFailure.data.code = ""
  /\ classified.name = "PhonePeAPIError" /\ ~classified.retryable
  /\ classified.apiErrorCode = "E42"

\* C26: when a getAccessToken() that began on an empty cache fails, the
\* cache is empty as before the call; when a forceRefresh() fails, the
\* cache is empty as its clearCache() left it.
C26_FailedRenewalLeavesCache ==
  [][\A i \in Calls :
       calls[i].pc = "awaiting" /\ calls'[i].pc = "rejected"
         /\ (calls[i].op = "forceRefresh" \/ calls[i].sawEmpty)
       => tokenCache' = EmptyCache]_vars

\* C27: a token in the cache is that of a renewal begun after the cache
\* was last cleared.
C27_ClearedStaysEmpty ==
  tokenCache.token # NullToken => tokenCache.token > clearedAt

\* C28: a credential is never replaced by that of a renewal whose request
\* was sent earlier.
C28_CredentialNeverRegresses ==
  [][tokenCache.token # NullToken /\ tokenCache'.token # NullToken
       => tokenCache'.token >= tokenCache.token]_vars

\* C29: the statusCode of the error built from a failure with a response
\* is the status of that response; it is unset without a response.
C29_StatusCodeIsResponseStatus ==
  classifyPc = "classified" /\ rawFailure.shape = "axios" =>
    /\ ~classified.threw
    /\ classified.statusCode =
         IF rawFailure.hasResponse THEN Num(rawFailure.status) ELSE Undefined

\* C30: every invocation that awaits its renewal is settled in the end,
\* resolved with a token or rejected with an error.
C30_EveryCallCompletes ==
  \A i \in Calls :
    (calls[i].pc = "awaiting") ~> (calls[i].pc \in {"resolved", "rejected"})

\* C30's case: overlapping invocations and a clearCache(), one resolved and
\* one rejected.
C30_Witness ==
  /\ clearedAt > 0
  /\ \A i \in Calls : calls[i].pc \in {"resolved", "rejected"}
  /\ \E i \in Calls : calls[i].pc = "resolved" /\ calls[i].op = "getAccessToken"
  /\ \E i \in Calls : calls[i].pc = "rejected" /\ calls[i].op = "forceRefresh"

====
